---- MODULE Spec2Model ----
(***************************************************************************)
(* A model of the Kademlia node and DHT registry of src/kademlia/kademlia.py *)
(* (KademliaNode, KademliaDHT) and of the registry removal used in           *)
(* src/kademlia/algorithm_explained.py.                                      *)
(*                                                                           *)
(* Python values are modelled as follows.                                    *)
(*   - identifiers are naturals below 2^W; the source's width of 160 bits    *)
(*     is scaled down to W bits, and the bucket array has W entries;         *)
(*   - an Optional value is a sequence: <<>> is None, <<v>> is the value v;  *)
(*   - a str value is a TLA+ string, "" being the (falsy) empty string;      *)
(*   - a raised IndexError is a result with ok = FALSE and no state change   *)
(*     beyond what the code did before raising.                              *)
(***************************************************************************)
EXTENDS Integers, Sequences, FiniteSets, TLC

\* ------------------------------------------------------------------ bounds

\* Width of the identifier space in bits (160 in the source, scaled down).
W == 3
\* add_node, find_closest_nodes and the constructor take identifiers 0..MaxId
\* and the largest identifier 2^W - 1.
MaxId == 4
\* The bucket size k given to the constructor ranges over 1..MaxK.
MaxK == 2
\* find_closest_nodes is called with count None or 0..MaxCount.
MaxCount == 2

\* ------------------------------------------------------------------ values

RECURSIVE Pow2(_)
Pow2(n) == IF n = 0 THEN 1 ELSE 2 * Pow2(n - 1)

IDs == 0 .. (Pow2(W) - 1)
InputIds == {i \in 0 .. MaxId : i < Pow2(W)} \cup {Pow2(W) - 1}

\* The outcomes of random.getrandbits that are modelled: the two ends of the
\* identifier space.
RandIds == {0, Pow2(W) - 1}

None == << >>
Some(v) == << v >>
\* Python truthiness of an Optional[int] (None and 0 are falsy) and of an
\* Optional[str] (None and "" are falsy).
TruthyInt(x) == x # None /\ x[1] # 0
TruthyStr(x) == x # None /\ x[1] # ""

Objs == {"n1", "n2", "n3"}
Keys == {"k1", "k2"}
Values == {"", "a", "b"}

\* int(hashlib.sha1(key.encode()).hexdigest(), 16), scaled to W bits: a fixed
\* function of the key, distinct keys hashing to distinct identifiers.
Hash(key) == IF key = "k1" THEN Pow2(W) - 1 ELSE 2
KeyHashes == {Hash(key) : key \in Keys}

\* ------------------------------------------------------------------ state

VARIABLES
    init_arg,   \* per node object: the node_id argument given to __init__
    node_id,    \* per node object: KademliaNode.node_id
    k,          \* per node object: KademliaNode.k
    buckets,    \* per node object: KademliaNode.buckets, W lists
    storage,    \* per node object: KademliaNode.storage, hash -> Optional value
    nodes,      \* KademliaDHT.nodes: a function from registered ids to objects
    written,    \* history: per node object and key, the last value stored
    recency,    \* history: per node object and bucket, the members in the
                \* order of their most recent add_node call, oldest first
    last,       \* history: the last call, its arguments and its result
    threads     \* per thread: its position inside the call it is running
                \* and the locals of that call

vars == << init_arg, node_id, k, buckets, storage, nodes, written, recency, last,
           threads >>

\* ------------------------------------------------------- pure functions

RECURSIVE Xor(_, _)
Xor(a, b) ==
    IF a = 0 THEN b
    ELSE IF b = 0 THEN a
    ELSE (((a % 2) + (b % 2)) % 2) + (2 * Xor(a \div 2, b \div 2))

RECURSIVE BitLength(_)
BitLength(n) == IF n = 0 THEN 0 ELSE 1 + BitLength(n \div 2)

\* The arithmetic difference of two identifiers in place of their XOR.
distance_abs_diff(id1, id2) == IF id1 < id2 THEN id2 - id1 ELSE id1 - id2

distance(id1, id2) == Xor(id1, id2)

\* bucket_index without the "- 1".
bucket_index_off(self_id, id) ==
    LET d == distance(self_id, id) IN IF d > 0 THEN BitLength(d) ELSE 0

bucket_index(self_id, id) ==
    LET d == distance(self_id, id) IN IF d > 0 THEN BitLength(d) - 1 ELSE 0

Contains(s, x) == \E i \in 1 .. Len(s) : s[i] = x

\* list.remove(x): removes the first occurrence of x.
RECURSIVE ListRemove(_, _)
ListRemove(s, x) ==
    IF s = << >> THEN << >>
    ELSE IF Head(s) = x THEN Tail(s)
    ELSE << Head(s) >> \o ListRemove(Tail(s), x)

ListSet(s) == {s[i] : i \in 1 .. Len(s)}

\* KademliaNode.add_node on the bucket array bk of a node with identifier
\* self_id and bucket size kk. The result holds the new bucket array and
\* whether the call returned (ok) or raised IndexError: a bucket index outside
\* the array, or pop(0) on an empty list.
Returned(bk) == [ok |-> TRUE, buckets |-> bk]
Raises(bk) == [ok |-> FALSE, buckets |-> bk]

\* add_node with the full bucket not evicting before it appends.
add_node_no_evict(bk, self_id, kk, id) ==
    IF id = self_id THEN Returned(bk)
    ELSE LET bucket_idx == bucket_index(self_id, id) IN
         IF bucket_idx \notin DOMAIN bk THEN Raises(bk)
         ELSE LET bucket == bk[bucket_idx] IN
              IF Contains(bucket, id)
                  THEN Returned([bk EXCEPT ![bucket_idx] =
                                    Append(ListRemove(bucket, id), id)])
              ELSE Returned([bk EXCEPT ![bucket_idx] = Append(bucket, id)])

\* add_node appending a known identifier without removing it first.
add_node_dup(bk, self_id, kk, id) ==
    IF id = self_id THEN Returned(bk)
    ELSE LET bucket_idx == bucket_index(self_id, id) IN
         IF bucket_idx \notin DOMAIN bk THEN Raises(bk)
         ELSE LET bucket == bk[bucket_idx] IN
              IF Len(bucket) < kk
                  THEN Returned([bk EXCEPT ![bucket_idx] = Append(bucket, id)])
              ELSE IF bucket = << >> THEN Raises(bk)
              ELSE Returned([bk EXCEPT ![bucket_idx] = Append(Tail(bucket), id)])

\* add_node evicting the tail (pop()) instead of the head (pop(0)).
add_node_pop_tail(bk, self_id, kk, id) ==
    IF id = self_id THEN Returned(bk)
    ELSE LET bucket_idx == bucket_index(self_id, id) IN
         IF bucket_idx \notin DOMAIN bk THEN Raises(bk)
         ELSE LET bucket == bk[bucket_idx] IN
              IF Contains(bucket, id)
                  THEN Returned([bk EXCEPT ![bucket_idx] =
                                    Append(ListRemove(bucket, id), id)])
              ELSE IF Len(bucket) < kk
                  THEN Returned([bk EXCEPT ![bucket_idx] = Append(bucket, id)])
              ELSE IF bucket = << >> THEN Raises(bk)
              ELSE Returned([bk EXCEPT ![bucket_idx] =
                                Append(SubSeq(bucket, 1, Len(bucket) - 1), id)])

\* add_node leaving a known identifier where it is.
add_node_no_move(bk, self_id, kk, id) ==
    IF id = self_id THEN Returned(bk)
    ELSE LET bucket_idx == bucket_index(self_id, id) IN
         IF bucket_idx \notin DOMAIN bk THEN Raises(bk)
         ELSE LET bucket == bk[bucket_idx] IN
              IF Contains(bucket, id) THEN Returned(bk)
              ELSE IF Len(bucket) < kk
                  THEN Returned([bk EXCEPT ![bucket_idx] = Append(bucket, id)])
              ELSE IF bucket = << >> THEN Raises(bk)
              ELSE Returned([bk EXCEPT ![bucket_idx] = Append(Tail(bucket), id)])

\* add_node raising on the node's own identifier instead of returning.
add_node_self_raises(bk, self_id, kk, id) ==
    IF id = self_id THEN Raises(bk)
    ELSE LET bucket_idx == bucket_index(self_id, id) IN
         IF bucket_idx \notin DOMAIN bk THEN Raises(bk)
         ELSE LET bucket == bk[bucket_idx] IN
              IF Contains(bucket, id)
                  THEN Returned([bk EXCEPT ![bucket_idx] =
                                    Append(ListRemove(bucket, id), id)])
              ELSE IF Len(bucket) < kk
                  THEN Returned([bk EXCEPT ![bucket_idx] = Append(bucket, id)])
              ELSE IF bucket = << >> THEN Raises(bk)
              ELSE Returned([bk EXCEPT ![bucket_idx] = Append(Tail(bucket), id)])

\* add_node without the test for the node's own identifier.
add_node_no_self_check(bk, self_id, kk, id) ==
    LET bucket_idx == bucket_index(self_id, id) IN
    IF bucket_idx \notin DOMAIN bk THEN Raises(bk)
    ELSE LET bucket == bk[bucket_idx] IN
         IF Contains(bucket, id)
             THEN Returned([bk EXCEPT ![bucket_idx] =
                               Append(ListRemove(bucket, id), id)])
         ELSE IF Len(bucket) < kk
             THEN Returned([bk EXCEPT ![bucket_idx] = Append(bucket, id)])
         ELSE IF bucket = << >> THEN Raises(bk)
         ELSE Returned([bk EXCEPT ![bucket_idx] = Append(Tail(bucket), id)])

add_node(bk, self_id, kk, id) ==
    IF id = self_id THEN Returned(bk)
    ELSE LET bucket_idx == bucket_index(self_id, id) IN
         IF bucket_idx \notin DOMAIN bk THEN Raises(bk)
         ELSE LET bucket == bk[bucket_idx] IN
              IF Contains(bucket, id)
                  THEN Returned([bk EXCEPT ![bucket_idx] =
                                    Append(ListRemove(bucket, id), id)])
              ELSE IF Len(bucket) < kk
                  THEN Returned([bk EXCEPT ![bucket_idx] = Append(bucket, id)])
              ELSE IF bucket = << >> THEN Raises(bk)
              ELSE Returned([bk EXCEPT ![bucket_idx] = Append(Tail(bucket), id)])

\* all_nodes of find_closest_nodes: the buckets concatenated in index order.
RECURSIVE Concat(_, _)
Concat(bk, i) ==
    IF i \notin DOMAIN bk THEN << >> ELSE bk[i] \o Concat(bk, i + 1)

\* list.sort(key=...) is a stable ascending sort: insertion after every
\* element whose key is not greater.
RECURSIVE InsertByKey(_, _, _)
InsertByKey(s, x, target_id) ==
    IF s = << >> THEN << x >>
    ELSE IF distance(target_id, Head(s)) <= distance(target_id, x)
        THEN << Head(s) >> \o InsertByKey(Tail(s), x, target_id)
    ELSE << x >> \o s

RECURSIVE SortByDistance(_, _)
SortByDistance(s, target_id) ==
    IF s = << >> THEN << >>
    ELSE InsertByKey(SortByDistance(SubSeq(s, 1, Len(s) - 1), target_id),
                     s[Len(s)], target_id)

\* all_nodes[:n] for n >= 0.
Prefix(s, n) == SubSeq(s, 1, IF n < Len(s) THEN n ELSE Len(s))

\* The list objects find_closest_nodes works on: the buckets under their
\* indices and, after them, the list that all_nodes = [] creates.
lists_of(bk) ==
    [r \in 0 .. Cardinality(DOMAIN bk) |-> IF r \in DOMAIN bk THEN bk[r] ELSE << >>]

\* all_nodes bound to the first bucket instead of a new list.
first_bucket(bk) == 0

\* all_nodes = []: the new list object.
new_list(bk) == Cardinality(DOMAIN bk)

\* for bucket in self.buckets: all_nodes.extend(bucket), from bucket i on
RECURSIVE extend_buckets(_, _, _, _)
extend_buckets(lists, all_nodes, i, n) ==
    IF i >= n THEN lists
    ELSE extend_buckets([lists EXCEPT ![all_nodes] = lists[all_nodes] \o lists[i]],
                        all_nodes, i + 1, n)

\* The body of find_closest_nodes on the list objects: the value returned
\* and the buckets as the call leaves them.
find_closest_run(bk, kk, target_id, count) ==
    LET n == IF TruthyInt(count) THEN count[1] ELSE kk
        all_nodes == new_list(bk)
        extended == extend_buckets(lists_of(bk), all_nodes, 0, Cardinality(DOMAIN bk))
        sorted_lists == [extended EXCEPT ![all_nodes] =
                            SortByDistance(extended[all_nodes], target_id)]
    IN  [ret |-> Prefix(sorted_lists[all_nodes], n),
         buckets |-> [i \in DOMAIN bk |-> sorted_lists[i]]]

\* KademliaNode.find_closest_nodes; count is None or Some(n).
find_closest_nodes(bk, kk, target_id, count) ==
    find_closest_run(bk, kk, target_id, count).ret

\* store keeping the value a key already has (first write wins).
store_first_wins(st, key, value) ==
    IF st[Hash(key)] = None THEN [st EXCEPT ![Hash(key)] = Some(value)] ELSE st

\* KademliaNode.store on one node's storage st.
store(st, key, value) == [st EXCEPT ![Hash(key)] = Some(value)]

\* KademliaNode.find_value: dict.get, None on a miss.
find_value(st, key) == st[Hash(key)]

\* KademliaNode.__init__: the identifiers a node constructed with argument
\* arg (None or Some(id)) can get.
new_node_id(arg) == IF TruthyInt(arg) THEN {arg[1]} ELSE RandIds

\* bootstrap making only the new node learn the known one.
bootstrap_one_way(bks, reg, ids, ks, new_node, bootstrap_node_id) ==
    IF bootstrap_node_id \in DOMAIN reg
    THEN LET r1 == add_node(bks[new_node], ids[new_node], ks[new_node],
                            bootstrap_node_id)
         IN  [ok |-> r1.ok, buckets |-> [bks EXCEPT ![new_node] = r1.buckets]]
    ELSE [ok |-> TRUE, buckets |-> bks]

\* KademliaDHT.bootstrap on the bucket arrays bks of all node objects, reg
\* being KademliaDHT.nodes: new_node.add_node(bootstrap_node_id), then
\* self.nodes[bootstrap_node_id].add_node(new_node.node_id); a raise in the
\* first call skips the second.
bootstrap(bks, reg, ids, ks, new_node, bootstrap_node_id) ==
    IF bootstrap_node_id \in DOMAIN reg
    THEN LET r1 == add_node(bks[new_node], ids[new_node], ks[new_node],
                            bootstrap_node_id)
             b1 == [bks EXCEPT ![new_node] = r1.buckets]
             known == reg[bootstrap_node_id]
             r2 == add_node(b1[known], ids[known], ks[known], ids[new_node])
         IN  IF ~r1.ok THEN [ok |-> FALSE, buckets |-> b1]
             ELSE [ok |-> r2.ok, buckets |-> [b1 EXCEPT ![known] = r2.buckets]]
    ELSE [ok |-> TRUE, buckets |-> bks]

\* The loop of KademliaDHT.lookup over the candidates: the value of the
\* first registered candidate with a truthy value, and (queried) the
\* candidates whose storage was read, in the order they were read.
RECURSIVE query_candidates(_, _, _, _)
query_candidates(closest, reg, sts, key) ==
    IF closest = << >> THEN [ret |-> None, queried |-> << >>]
    ELSE LET close_node_id == Head(closest) IN
         IF close_node_id \in DOMAIN reg
         THEN LET value == find_value(sts[reg[close_node_id]], key) IN
              IF TruthyStr(value)
              THEN [ret |-> value, queried |-> << close_node_id >>]
              ELSE LET r == query_candidates(Tail(closest), reg, sts, key) IN
                   [ret |-> r.ret, queried |-> << close_node_id >> \o r.queried]
         ELSE query_candidates(Tail(closest), reg, sts, key)

\* lookup resolving the origin among all node objects instead of the
\* registry, so that an unregistered origin is served like a registered one.
lookup_any_origin(reg, bks, ks, sts, origin_id, target_key) ==
    LET owners == {o \in DOMAIN bks : node_id[o] = origin_id} IN
    IF owners = {}
    THEN [ret |-> None, local |-> FALSE, called |-> FALSE,
          closest |-> << >>, queried |-> << >>, buckets |-> bks]
    ELSE LET node == CHOOSE o \in owners : TRUE
             value == find_value(sts[node], target_key)
         IN  IF TruthyStr(value)
             THEN [ret |-> value, local |-> TRUE, called |-> FALSE,
                   closest |-> << >>, queried |-> << >>, buckets |-> bks]
             ELSE LET run == find_closest_run(bks[node], ks[node],
                                              Hash(target_key), None)
                      r == query_candidates(run.ret, reg, sts, target_key)
                  IN  [ret |-> r.ret, local |-> TRUE, called |-> TRUE,
                       closest |-> run.ret, queried |-> r.queried,
                       buckets |-> [bks EXCEPT ![node] = run.buckets]]

\* KademliaDHT.lookup(node_id, target_key): the returned value (ret), whether
\* the origin's storage was read (local), the candidate list computed
\* (closest, empty when find_closest_nodes was not called), the candidates
\* whose storage was read (queried) and every node's buckets as the call
\* leaves them (buckets).
lookup(reg, bks, ks, sts, origin_id, target_key) ==
    IF origin_id \notin DOMAIN reg
    THEN [ret |-> None, local |-> FALSE, called |-> FALSE,
          closest |-> << >>, queried |-> << >>, buckets |-> bks]
    ELSE LET node == reg[origin_id]
             key_hash == Hash(target_key)
             value == find_value(sts[node], target_key)
         IN  IF TruthyStr(value)
             THEN [ret |-> value, local |-> TRUE, called |-> FALSE,
                   closest |-> << >>, queried |-> << >>, buckets |-> bks]
             ELSE LET run == find_closest_run(bks[node], ks[node], key_hash, None)
                      r == query_candidates(run.ret, reg, sts, target_key)
                  IN  [ret |-> r.ret, local |-> TRUE, called |-> TRUE,
                       closest |-> run.ret, queried |-> r.queried,
                       buckets |-> [bks EXCEPT ![node] = run.buckets]]

EmptyBuckets == [i \in 0 .. (W - 1) |-> << >>]
EmptyStorage == [h \in KeyHashes |-> None]

\* ---------------------------------------------------------------- actions

NoCall == [op |-> "init"]

\* The threads that call into the nodes concurrently: two that change
\* state and one that reads. A thread outside a call is Idle.
Writers == {"t1", "t2"}
Reader == "r"
Threads == Writers \cup {Reader}
Idle == [pc |-> "idle"]

\* The constructor arguments of the three node objects of the network.
NetArgs == [o \in Objs |-> IF o = "n1" THEN Some(4) ELSE IF o = "n2" THEN Some(5) ELSE Some(6)]
\* The single node the node-level specification works on.
Solo == "n1"
Args == {None} \cup {Some(i) : i \in InputIds}
Counts == {None} \cup {Some(n) : n \in 0 .. MaxCount}

\* The state after construction: KademliaNode.__init__ for every object with
\* the arguments args and bucket sizes ks, and KademliaDHT.__init__.
Constructed(args, ks) ==
    /\ init_arg = args
    /\ node_id \in [Objs -> IDs]
    /\ \A o \in Objs : node_id[o] \in new_node_id(args[o])
    /\ k = ks
    /\ buckets = [o \in Objs |-> EmptyBuckets]
    /\ storage = [o \in Objs |-> EmptyStorage]
    /\ nodes = << >>
    /\ written = [o \in Objs |-> [key \in Keys |-> None]]
    /\ recency = [o \in Objs |-> EmptyBuckets]
    /\ last = NoCall
    /\ threads = [t \in Threads |-> Idle]

\* The history of add_node calls after add_node(id) turned the bucket array
\* into bk: in the bucket that now holds id, id is the latest call; every
\* bucket keeps the calls of its present members only.
Touch(rc, bk, id) ==
    [i \in DOMAIN bk |->
        LET t == IF Contains(bk[i], id)
                 THEN Append(SelectSeq(rc[i], LAMBDA x : x # id), id)
                 ELSE rc[i]
        IN  SelectSeq(t, LAMBDA x : Contains(bk[i], x))]

\* node.add_node(id)
AddNode(o, id) ==
    LET r == add_node(buckets[o], node_id[o], k[o], id) IN
    /\ buckets' = [buckets EXCEPT ![o] = r.buckets]
    /\ recency' = [recency EXCEPT ![o] =
                      IF r.ok /\ id # node_id[o] THEN Touch(recency[o], r.buckets, id)
                      ELSE recency[o]]
    /\ last' = [op |-> "add_node", obj |-> o, id |-> id, pre |-> buckets[o],
                pre_recency |-> recency[o], ok |-> r.ok]
    /\ UNCHANGED << init_arg, node_id, k, storage, nodes, written, threads >>

\* node.find_closest_nodes(target_id, count)
FindClosestNodes(o, target_id, count) ==
    LET run == find_closest_run(buckets[o], k[o], target_id, count) IN
    /\ last' = [op |-> "find_closest_nodes", obj |-> o, target |-> target_id,
                count |-> count, ret |-> run.ret]
    /\ buckets' = [buckets EXCEPT ![o] = run.buckets]
    /\ UNCHANGED << init_arg, node_id, k, storage, nodes, written, recency, threads >>

\* node.store(key, value)
Store(o, key, value) ==
    /\ storage' = [storage EXCEPT ![o] = store(storage[o], key, value)]
    /\ written' = [written EXCEPT ![o][key] = Some(value)]
    /\ last' = [op |-> "store", obj |-> o, key |-> key, value |-> value,
                prev |-> find_value(storage[o], key)]
    /\ UNCHANGED << init_arg, node_id, k, buckets, nodes, recency, threads >>

\* node.find_value(key)
FindValue(o, key) ==
    /\ last' = [op |-> "find_value", obj |-> o, key |-> key,
                pre |-> storage[o], ret |-> find_value(storage[o], key)]
    /\ UNCHANGED << init_arg, node_id, k, buckets, storage, nodes, written, recency, threads >>

\* ----------------------------------------------------- node specification
\* One node, constructed with any argument and any bucket size, and every
\* call of its methods.

Init ==
    \E a \in Args, kk \in 1 .. MaxK :
        Constructed([NetArgs EXCEPT ![Solo] = a], [o \in Objs |-> kk])

\* The routing table of the node: add_node and find_closest_nodes.
Next ==
    \/ \E id \in InputIds : AddNode(Solo, id)
    \/ \E t \in InputIds, c \in Counts : FindClosestNodes(Solo, t, c)

Spec == Init /\ [][Next]_vars

\* The local storage of the node: store and find_value.
StorageNext ==
    \/ \E key \in Keys, v \in Values : Store(Solo, key, v)
    \/ \E key \in Keys : FindValue(Solo, key)

StorageSpec == Init /\ [][StorageNext]_vars

\* -------------------------------------------------- network specification
\* The three node objects of NetArgs and one KademliaDHT.

NetIds == {NetArgs[o][1] : o \in Objs}
\* Identifiers given to bootstrap and lookup: the nodes' and one of no node.
ProbeIds == NetIds \cup {3}
\* The key the nodes of the network store values under, and the nodes that
\* store: n1 only looks values up.
StoreKeys == {"k1"}
StoreObjs == {"n2", "n3"}

NetInit == \E kk \in 1 .. MaxK : Constructed(NetArgs, [o \in Objs |-> kk])

\* dht.add_node(node)
Register(o) ==
    /\ nodes' = [i \in DOMAIN nodes \cup {node_id[o]} |->
                    IF i = node_id[o] THEN o ELSE nodes[i]]
    /\ last' = [op |-> "dht.add_node", obj |-> o]
    /\ UNCHANGED << init_arg, node_id, k, buckets, storage, written, recency, threads >>

\* dht.nodes.pop(id) of a registered id: the node failed or left.
RemoveNode(id) ==
    /\ id \in DOMAIN nodes
    /\ nodes' = [i \in DOMAIN nodes \ {id} |-> nodes[i]]
    /\ last' = [op |-> "dht.nodes.pop", id |-> id]
    /\ UNCHANGED << init_arg, node_id, k, buckets, storage, written, recency, threads >>

\* dht.bootstrap(new_node, bootstrap_node_id)
Bootstrap(o, id) ==
    LET r == bootstrap(buckets, nodes, node_id, k, o, id)
        acted == id \in DOMAIN nodes
        rc1 == IF acted /\ id # node_id[o]
               THEN [recency EXCEPT ![o] = Touch(recency[o], r.buckets[o], id)]
               ELSE recency
        rc2 == IF acted /\ r.ok /\ id # node_id[o]
               THEN [rc1 EXCEPT ![nodes[id]] =
                        Touch(rc1[nodes[id]], r.buckets[nodes[id]], node_id[o])]
               ELSE rc1
    IN
    /\ buckets' = r.buckets
    /\ recency' = rc2
    /\ last' = [op |-> "bootstrap", obj |-> o, id |-> id, ok |-> r.ok]
    /\ UNCHANGED << init_arg, node_id, k, storage, nodes, written, threads >>

\* dht.lookup(origin_id, key)
Lookup(origin_id, key) ==
    LET r == lookup(nodes, buckets, k, storage, origin_id, key) IN
    /\ last' = [op |-> "lookup", origin |-> origin_id, key |-> key, ret |-> r.ret,
                local |-> r.local, called |-> r.called, closest |-> r.closest,
                queried |-> r.queried]
    /\ buckets' = r.buckets
    /\ UNCHANGED << init_arg, node_id, k, storage, nodes, written, recency, threads >>

\* Storage and lookup over a network wired by bootstrap.
LookupNext ==
    \/ \E o \in Objs : Register(o)
    \/ \E id \in NetIds : RemoveNode(id)
    \/ \E o \in Objs, id \in ProbeIds : Bootstrap(o, id)
    \/ \E o \in StoreObjs, key \in StoreKeys, v \in Values : Store(o, key, v)
    \/ \E id \in ProbeIds, key \in Keys : Lookup(id, key)

LookupSpec == NetInit /\ [][LookupNext]_vars

\* The calls that only read, over a network wired by bootstrap whose nodes
\* store values: lookup from every origin and find_closest_nodes on every
\* node.
ReadOnlyNext ==
    \/ \E o \in Objs : Register(o)
    \/ \E o \in Objs, id \in NetIds : Bootstrap(o, id)
    \/ \E o \in StoreObjs, key \in StoreKeys, v \in Values : Store(o, key, v)
    \/ \E id \in ProbeIds, key \in StoreKeys : Lookup(id, key)
    \/ \E o \in Objs, t \in KeyHashes, c \in {None, Some(MaxCount)} :
          FindClosestNodes(o, t, c)

ReadOnlySpec == NetInit /\ [][ReadOnlyNext]_vars

\* The routing tables of the network: add_node and bootstrap.
WiringNext ==
    \/ \E o \in Objs : Register(o)
    \/ \E id \in NetIds : RemoveNode(id)
    \/ \E o \in Objs, id \in ProbeIds : Bootstrap(o, id)
    \/ \E o \in Objs, id \in NetIds : AddNode(o, id)

WiringSpec == NetInit /\ [][WiringNext]_vars

\* ------------------------------------------------- distance specification
\* node.distance(id1, id2) for every pair of identifiers of the space.
Distance(o, id1, id2) ==
    /\ last' = [op |-> "distance", obj |-> o, a |-> id1, b |-> id2,
                ret |-> distance(id1, id2)]
    /\ UNCHANGED << init_arg, node_id, k, buckets, storage, nodes, written, recency, threads >>

DistanceNext == \E id1 \in IDs, id2 \in IDs : Distance(Solo, id1, id2)

DistanceSpec == Init /\ [][DistanceNext]_vars

\* ------------------------------------- concurrent add_node specification
\* Two threads call add_node on the node Solo and a third calls
\* find_closest_nodes on it. The code takes no lock, so a thread can be
\* preempted between any two operations on the bucket list: the membership
\* test, the length test, remove, pop and append of add_node, and the
\* extend of one bucket in find_closest_nodes, are one step each.

\* Identifiers the concurrent callers insert: the node's own and two that
\* share a bucket.
ConcIds == {NetArgs[Solo][1], 6, 7}
ReadTargets == {0}

Free(t) == threads[t].pc \in {"idle", "done"}
Finished(err) == [pc |-> "done", err |-> err]
SoloBucket(t) == buckets[Solo][threads[t].idx]
SetSoloBucket(t, b) == [buckets EXCEPT ![Solo][threads[t].idx] = b]
ConcFrame == << init_arg, node_id, k, storage, nodes, written, recency, last >>

\* add_node, lines 20-24: the test for the own identifier and the choice of
\* the bucket; nothing another thread changes is read.
BeginAddNode(t, id) ==
    /\ Free(t)
    /\ threads' = [threads EXCEPT ![t] =
          IF id = node_id[Solo] THEN Finished(FALSE)
          ELSE IF bucket_index(node_id[Solo], id) \notin DOMAIN buckets[Solo]
              THEN Finished(TRUE)
          ELSE [pc |-> "member", id |-> id,
                idx |-> bucket_index(node_id[Solo], id), refresh |-> FALSE]]
    /\ UNCHANGED << buckets, ConcFrame >>

\* line 26: if node_id in bucket
MemberTest(t) ==
    /\ threads[t].pc = "member"
    /\ threads' = [threads EXCEPT ![t].pc =
          IF Contains(SoloBucket(t), threads[t].id) THEN "remove" ELSE "len"]
    /\ UNCHANGED << buckets, ConcFrame >>

\* line 27: bucket.remove(node_id), a ValueError when the id is not there
RemoveStep(t) ==
    /\ threads[t].pc = "remove"
    /\ IF Contains(SoloBucket(t), threads[t].id)
       THEN /\ buckets' = SetSoloBucket(t, ListRemove(SoloBucket(t), threads[t].id))
            /\ threads' = [threads EXCEPT ![t].pc = "append", ![t].refresh = TRUE]
       ELSE /\ buckets' = buckets
            /\ threads' = [threads EXCEPT ![t] = Finished(TRUE)]
    /\ UNCHANGED ConcFrame

\* line 29: elif len(bucket) < self.k
LenTest(t) ==
    /\ threads[t].pc = "len"
    /\ threads' = [threads EXCEPT ![t].pc =
          IF Len(SoloBucket(t)) < k[Solo] THEN "append" ELSE "pop"]
    /\ UNCHANGED << buckets, ConcFrame >>

\* line 33: bucket.pop(0), an IndexError when the bucket is empty
PopStep(t) ==
    /\ threads[t].pc = "pop"
    /\ IF SoloBucket(t) # << >>
       THEN /\ buckets' = SetSoloBucket(t, Tail(SoloBucket(t)))
            /\ threads' = [threads EXCEPT ![t].pc = "append"]
       ELSE /\ buckets' = buckets
            /\ threads' = [threads EXCEPT ![t] = Finished(TRUE)]
    /\ UNCHANGED ConcFrame

\* lines 28, 30, 34: bucket.append(node_id), and the return
AppendStep(t) ==
    /\ threads[t].pc = "append"
    /\ buckets' = SetSoloBucket(t, Append(SoloBucket(t), threads[t].id))
    /\ threads' = [threads EXCEPT ![t] = Finished(FALSE)]
    /\ UNCHANGED ConcFrame

\* The identifiers a writer has removed from bucket idx and not yet appended
\* again, and that nobody else has put there.
InFlight(idx) ==
    {threads[t].id : t \in {w \in Writers :
        /\ threads[w].pc = "append" /\ threads[w].refresh
        /\ threads[w].idx = idx
        /\ ~Contains(buckets[Solo][idx], threads[w].id)}}

\* find_closest_nodes, lines 37-39: count = count or self.k; all_nodes = []
BeginFind(target_id, count) ==
    /\ Free(Reader)
    /\ threads' = [threads EXCEPT ![Reader] =
          [pc |-> "extend", target |-> target_id, count |-> count,
           n |-> IF TruthyInt(count) THEN count[1] ELSE k[Solo],
           idx |-> 0, all_nodes |-> << >>, missed |-> {}]]
    /\ UNCHANGED << buckets, ConcFrame >>

\* lines 40-41: all_nodes.extend(bucket) for the next bucket
ExtendStep ==
    LET r == threads[Reader] IN
    /\ r.pc = "extend"
    /\ r.idx \in DOMAIN buckets[Solo]
    /\ threads' = [threads EXCEPT ![Reader] =
          [r EXCEPT !.all_nodes = r.all_nodes \o buckets[Solo][r.idx],
                    !.missed = r.missed \cup InFlight(r.idx),
                    !.idx = r.idx + 1]]
    /\ UNCHANGED << buckets, ConcFrame >>

\* lines 43-44: the sort, the slice and the return
ReturnFind ==
    LET r == threads[Reader] IN
    /\ r.pc = "extend"
    /\ r.idx \notin DOMAIN buckets[Solo]
    /\ last' = [op |-> "find_closest_nodes while add_node", obj |-> Solo,
                target |-> r.target, count |-> r.count,
                ret |-> Prefix(SortByDistance(r.all_nodes, r.target), r.n),
                all_nodes |-> r.all_nodes, missed |-> r.missed]
    /\ threads' = [threads EXCEPT ![Reader] = Finished(FALSE)]
    /\ UNCHANGED << init_arg, node_id, k, buckets, storage, nodes, written, recency >>

ConcurrentAddNext ==
    \/ \E t \in Writers, id \in ConcIds : BeginAddNode(t, id)
    \/ \E t \in Writers : MemberTest(t)
    \/ \E t \in Writers : RemoveStep(t)
    \/ \E t \in Writers : LenTest(t)
    \/ \E t \in Writers : PopStep(t)
    \/ \E t \in Writers : AppendStep(t)
    \/ \E target \in ReadTargets, c \in {None} : BeginFind(target, c)
    \/ ExtendStep
    \/ ReturnFind

ConcurrentAddSpec == NetInit /\ [][ConcurrentAddNext]_vars

\* ------------------------------------ concurrent bootstrap specification
\* One thread runs dht.bootstrap statement by statement while the registry
\* changes and other calls run: the code takes no lock, so the thread can be
\* preempted after the registry test and between the two add_node calls.

Booter == "t1"
\* The object whose node_id is id.
ObjOf(id) == CHOOSE o \in Objs : node_id[o] = id
Ended(o, id, first, second, err) ==
    [pc |-> "done", obj |-> o, id |-> id, first |-> first, second |-> second,
     err |-> err]

\* line 62: if bootstrap_node_id in self.nodes
BeginBootstrap(t, o, id) ==
    /\ Free(t)
    /\ threads' = [threads EXCEPT ![t] =
          IF id \in DOMAIN nodes THEN [pc |-> "first", obj |-> o, id |-> id]
          ELSE Ended(o, id, FALSE, FALSE, FALSE)]
    /\ UNCHANGED << buckets, ConcFrame >>

\* line 63: new_node.add_node(bootstrap_node_id)
FirstInsert(t) ==
    LET o == threads[t].obj
        id == threads[t].id
        r == add_node(buckets[o], node_id[o], k[o], id)
    IN
    /\ threads[t].pc = "first"
    /\ buckets' = [buckets EXCEPT ![o] = r.buckets]
    /\ recency' = [recency EXCEPT ![o] =
                      IF r.ok /\ id # node_id[o] THEN Touch(recency[o], r.buckets, id)
                      ELSE recency[o]]
    /\ threads' = [threads EXCEPT ![t] =
          IF r.ok THEN [pc |-> "second", obj |-> o, id |-> id]
          ELSE Ended(o, id, FALSE, FALSE, TRUE)]
    /\ UNCHANGED << init_arg, node_id, k, storage, nodes, written, last >>

\* line 64: self.nodes[bootstrap_node_id].add_node(new_node.node_id), a
\* KeyError when the identifier has left the registry
SecondInsert(t) ==
    LET o == threads[t].obj
        id == threads[t].id
    IN
    /\ threads[t].pc = "second"
    /\ IF id \in DOMAIN nodes
       THEN LET b == nodes[id]
                r == add_node(buckets[b], node_id[b], k[b], node_id[o])
            IN  /\ buckets' = [buckets EXCEPT ![b] = r.buckets]
                /\ recency' = [recency EXCEPT ![b] =
                      IF r.ok /\ node_id[o] # node_id[b]
                      THEN Touch(recency[b], r.buckets, node_id[o])
                      ELSE recency[b]]
                /\ threads' = [threads EXCEPT ![t] = Ended(o, id, TRUE, r.ok, ~r.ok)]
       ELSE /\ UNCHANGED << buckets, recency >>
            /\ threads' = [threads EXCEPT ![t] = Ended(o, id, TRUE, FALSE, TRUE)]
    /\ UNCHANGED << init_arg, node_id, k, storage, nodes, written, last >>

\* The bootstraps standing between their two add_node calls with one table
\* wired and the other not, that involve the node with identifier id.
HalfWired(id) ==
    {t \in Threads :
        /\ threads[t].pc = "second"
        /\ threads[t].id # node_id[threads[t].obj]
        /\ id \in {threads[t].id, node_id[threads[t].obj]}
        /\ Contains(Concat(buckets[threads[t].obj], 0), threads[t].id)
        /\ ~Contains(Concat(buckets[ObjOf(threads[t].id)], 0),
                     node_id[threads[t].obj])}

\* dht.lookup(origin_id, key) by another thread; half is the set of
\* bootstraps whose unfinished wiring the origin's table shows.
LookupDuringBootstrap(origin_id, key) ==
    LET r == lookup(nodes, buckets, k, storage, origin_id, key) IN
    /\ last' = [op |-> "lookup while bootstrap", origin |-> origin_id,
                key |-> key, ret |-> r.ret, called |-> r.called,
                closest |-> r.closest,
                half |-> IF r.called THEN HalfWired(origin_id) ELSE {}]
    /\ buckets' = r.buckets
    /\ UNCHANGED << init_arg, node_id, k, storage, nodes, written, recency, threads >>

ConcurrentBootstrapNext ==
    \/ \E o \in Objs : Register(o)
    \/ \E id \in NetIds : RemoveNode(id)
    \/ \E o \in Objs, id \in ProbeIds : BeginBootstrap(Booter, o, id)
    \/ FirstInsert(Booter)
    \/ SecondInsert(Booter)
    \/ \E id \in NetIds, key \in StoreKeys : LookupDuringBootstrap(id, key)

ConcurrentBootstrapSpec == NetInit /\ [][ConcurrentBootstrapNext]_vars

\* ---------------------------------------------------------------- bencode
\* src/bencode/parser.py. A bytes object is a sequence of byte values; a
\* Python value is a record with its type t and its content: bytes b, an
\* integer n, a list l of values, or a dict d as the sequence of its
\* << key, value >> items in insertion order.

\* Byte strings have up to MaxBytesLen bytes of ByteAlphabet ('1', ':', 'e').
MaxBytesLen == 2
\* Integers range over -MaxInt..MaxInt and the integers of the examples.
MaxInt == 11
\* Lists and dicts have up to MaxItems items.
MaxItems == 2

ByteAlphabet == {49, 58, 101}
SeqsUpTo(S, n) == UNION {[1 .. m -> S] : m \in 0 .. n}

PyBytes(s) == [t |-> "bytes", b |-> s]
PyInt(n) == [t |-> "int", n |-> n]
PyList(items) == [t |-> "list", l |-> items]
PyDict(items) == [t |-> "dict", d |-> items]

\* str(n).encode() for an integer n
RECURSIVE digits(_)
digits(n) == IF n < 10 THEN << 48 + n >> ELSE digits(n \div 10) \o << 48 + (n % 10) >>
str(n) == IF n < 0 THEN << 45 >> \o digits(0 - n) ELSE digits(n)

\* a < b for bytes objects
RECURSIVE BytesLess(_, _)
BytesLess(a, b) ==
    IF b = << >> THEN FALSE
    ELSE IF a = << >> THEN TRUE
    ELSE IF a[1] # b[1] THEN a[1] < b[1]
    ELSE BytesLess(Tail(a), Tail(b))

RECURSIVE InsertKey(_, _)
InsertKey(s, x) ==
    IF s = << >> THEN << x >>
    ELSE IF BytesLess(x, Head(s)) THEN << x >> \o s
    ELSE << Head(s) >> \o InsertKey(Tail(s), x)

\* sorted(obj.keys())
RECURSIVE sorted(_)
sorted(keys) ==
    IF keys = << >> THEN << >>
    ELSE InsertKey(sorted(SubSeq(keys, 1, Len(keys) - 1)), keys[Len(keys)])

dict_keys(items) == [i \in 1 .. Len(items) |-> items[i][1]]
dict_get(items, key) ==
    items[CHOOSE i \in 1 .. Len(items) : items[i][1] = key][2]
\* result[key] = value
dict_set(items, key, value) ==
    IF \E i \in 1 .. Len(items) : items[i][1] = key
    THEN [i \in 1 .. Len(items) |->
             IF items[i][1] = key THEN << key, value >> ELSE items[i]]
    ELSE Append(items, << key, value >>)

RECURSIVE encode(_)
RECURSIVE join_list(_)
RECURSIVE join_dict(_, _)

\* b''.join(encode(item) for item in obj)
join_list(items) ==
    IF items = << >> THEN << >>
    ELSE encode(Head(items)) \o join_list(Tail(items))

\* the items appended for the keys in the given order, joined
join_dict(items, keys) ==
    IF keys = << >> THEN << >>
    ELSE encode(PyBytes(Head(keys))) \o encode(dict_get(items, Head(keys)))
         \o join_dict(items, Tail(keys))

encode(obj) ==
    CASE obj.t = "bytes" -> str(Len(obj.b)) \o << 58 >> \o obj.b
      [] obj.t = "int"   -> << 105 >> \o str(obj.n) \o << 101 >>
      [] obj.t = "list"  -> << 108 >> \o join_list(obj.l) \o << 101 >>
      [] obj.t = "dict"  -> << 100 >> \o join_dict(obj.d, sorted(dict_keys(obj.d)))
                            \o << 101 >>

\* ----- BencodeParser; index counts from 0 as in the source
Parsed(value, index) == [ok |-> TRUE, value |-> value, index |-> index]
Failed(index) == [ok |-> FALSE, value |-> << >>, index |-> index]

\* data[index] and data[a:b]
At(data, index) == data[index + 1]
Slice(data, a, b) == SubSeq(data, a + 1, b)

\* data.find(byte, start)
find(data, byte, start) ==
    IF \E i \in start .. (Len(data) - 1) : At(data, i) = byte
    THEN CHOOSE i \in start .. (Len(data) - 1) :
            /\ At(data, i) = byte
            /\ \A j \in start .. (i - 1) : At(data, j) # byte
    ELSE 0 - 1

\* chr(byte).isdigit(): the ASCII digits and the superscripts of Latin-1
isdigit(byte) == byte \in (48 .. 57) \cup {178, 179, 185}

RECURSIVE digits_value(_)
digits_value(s) ==
    IF s = << >> THEN 0 ELSE (10 * digits_value(SubSeq(s, 1, Len(s) - 1))) + (s[Len(s)] - 48)

\* int(bytes): an optional sign and one or more ASCII digits, else ValueError
int(s) ==
    LET signed == s # << >> /\ s[1] \in {43, 45}
        body == IF signed THEN Tail(s) ELSE s
    IN  IF body = << >> \/ \E i \in 1 .. Len(body) : body[i] \notin 48 .. 57
        THEN [ok |-> FALSE, n |-> 0]
        ELSE [ok |-> TRUE,
              n |-> IF signed /\ s[1] = 45 THEN 0 - digits_value(body)
                    ELSE digits_value(body)]

\* _decode_string with the length taken one byte short
decode_string_short(data, index) ==
    LET colon_pos == find(data, 58, index)
        length == int(Slice(data, index, colon_pos))
    IN  IF colon_pos = 0 - 1 \/ ~length.ok \/ length.n = 0 THEN Failed(index)
        ELSE Parsed(PyBytes(Slice(data, colon_pos + 1, colon_pos + length.n)),
                    colon_pos + length.n)

decode_string(data, index) ==
    LET colon_pos == find(data, 58, index) IN
    IF colon_pos = 0 - 1 THEN Failed(index)
    ELSE LET length == int(Slice(data, index, colon_pos))
             start == colon_pos + 1
         IN  IF ~length.ok THEN Failed(index)
             ELSE IF start + length.n > Len(data) THEN Failed(start)
             ELSE Parsed(PyBytes(Slice(data, start, start + length.n)),
                         start + length.n)

decode_integer(data, index) ==
    LET end_pos == find(data, 101, index + 1) IN
    IF end_pos = 0 - 1 THEN Failed(index + 1)
    ELSE LET result == int(Slice(data, index + 1, end_pos)) IN
         IF ~result.ok THEN Failed(index + 1)
         ELSE Parsed(PyInt(result.n), end_pos + 1)

RECURSIVE decode_value(_, _)
RECURSIVE decode_list(_, _, _)
RECURSIVE decode_dict(_, _, _)

\* the loop of _decode_list from position index with the items read so far
decode_list(data, index, result) ==
    IF index < Len(data) /\ At(data, index) # 101
    THEN LET item == decode_value(data, index) IN
         IF ~item.ok THEN item
         ELSE decode_list(data, item.index, Append(result, item.value))
    ELSE IF index >= Len(data) THEN Failed(index)
    ELSE Parsed(PyList(result), index + 1)

\* the loop of _decode_dict from position index with the items read so far
decode_dict(data, index, result) ==
    IF index < Len(data) /\ At(data, index) # 101
    THEN LET key == decode_value(data, index) IN
         IF ~key.ok THEN key
         ELSE IF key.value.t # "bytes" THEN Failed(key.index)
         ELSE LET value == decode_value(data, key.index) IN
              IF ~value.ok THEN value
              ELSE decode_dict(data, value.index,
                               dict_set(result, key.value.b, value.value))
    ELSE IF index >= Len(data) THEN Failed(index)
    ELSE Parsed(PyDict(result), index + 1)

decode_value(data, index) ==
    IF index >= Len(data) THEN Failed(index)
    ELSE LET char == At(data, index) IN
         IF isdigit(char) THEN decode_string(data, index)
         ELSE IF char = 105 THEN decode_integer(data, index)
         ELSE IF char = 108 THEN decode_list(data, index + 1, << >>)
         ELSE IF char = 100 THEN decode_dict(data, index + 1, << >>)
         ELSE Failed(index)

\* decode(data): the value parser.decode() returns and where the parser stops
decode(data) == decode_value(data, 0)

\* a == b for Python values: a dict equals a dict with the same keys and
\* equal values, whatever the order of insertion.
RECURSIVE PyEq(_, _)
PyEq(a, b) ==
    /\ a.t = b.t
    /\ CASE a.t = "list" ->
              /\ Len(a.l) = Len(b.l)
              /\ \A i \in 1 .. Len(a.l) : PyEq(a.l[i], b.l[i])
         [] a.t = "dict" ->
              /\ {a.d[i][1] : i \in 1 .. Len(a.d)} = {b.d[i][1] : i \in 1 .. Len(b.d)}
              /\ Len(a.d) = Len(b.d)
              /\ \A i \in 1 .. Len(a.d) :
                    PyEq(a.d[i][2], dict_get(b.d, a.d[i][1]))
         [] a.t = "int" -> a.n = b.n
         [] OTHER -> a.b = b.b

\* ----- the values encoded
\* b'e' eleven times: a length of two digits.
LongBytes == [i \in 1 .. MaxInt |-> 101]
BytesValues == SeqsUpTo(ByteAlphabet, MaxBytesLen) \cup {LongBytes}
IntValues == ((0 - MaxInt) .. MaxInt) \cup {0 - 123, 999999}
Atoms == {PyBytes(b) : b \in BytesValues} \cup {PyInt(n) : n \in IntValues}
\* The items of the containers.
Leaves == {PyBytes(<< >>), PyBytes(<< 101 >>), PyInt(0), PyInt(0 - 1)}
KeyPool == {<< >>, << 49 >>, << 49, 49 >>, << 58 >>}
Injective(s) == \A i, j \in 1 .. Len(s) : s[i] = s[j] => i = j
ListsOf(pool) == {PyList(items) : items \in SeqsUpTo(pool, MaxItems)}
DictsOf(pool) ==
    {PyDict(items) : items \in
        {s \in SeqsUpTo(KeyPool \X pool, MaxItems) : Injective(dict_keys(s))}}
Flat == ListsOf(Leaves) \cup DictsOf(Leaves)
Inner == {PyList(<< >>), PyDict(<< >>), PyList(<< PyBytes(<< 101 >>), PyInt(0 - 1) >>),
          PyDict(<< << << 58 >>, PyInt(0) >>, << << >>, PyBytes(<< 58 >>) >> >>)}
Nested == ListsOf(Inner) \cup DictsOf(Inner)
PyValues == Atoms \cup Flat \cup Nested

\* The edge cases decoded in examples.py, b'0:', b'i0e', b'i-42e', b'le',
\* b'de', b'll1:eee', and data the parser rejects: b'i1', b'2:1', b'li0e0:e'
\* cut short, b'di0ei0ee', b'x'.
EdgeCases ==
    {<< 48, 58 >>, << 105, 48, 101 >>, << 105, 45, 52, 50, 101 >>,
     << 108, 101 >>, << 100, 101 >>, << 108, 108, 49, 58, 101, 101, 101 >>,
     << 105, 49 >>, << 50, 58, 49 >>, << 108, 105, 48, 101, 48, 58 >>,
     << 100, 105, 48, 101, 105, 48, 101, 101 >>, << 120 >>}

\* encoded = encode(obj)
Encode(obj) ==
    /\ last' = [op |-> "encode", obj |-> obj, ret |-> encode(obj)]
    /\ UNCHANGED << init_arg, node_id, k, buckets, storage, nodes, written, recency,
                    threads >>

\* decoded = decode(encoded) of the value just encoded
DecodeEncoded ==
    /\ last.op = "encode"
    /\ LET r == decode(last.ret) IN
       last' = [op |-> "decode", src |-> Some(last.obj), data |-> last.ret,
                ok |-> r.ok, ret |-> r.value, index |-> r.index]
    /\ UNCHANGED << init_arg, node_id, k, buckets, storage, nodes, written, recency,
                    threads >>

\* decode(data) of given bytes
Decode(data) ==
    /\ LET r == decode(data) IN
       last' = [op |-> "decode", src |-> None, data |-> data,
                ok |-> r.ok, ret |-> r.value, index |-> r.index]
    /\ UNCHANGED << init_arg, node_id, k, buckets, storage, nodes, written, recency,
                    threads >>

\* One value is encoded and decoded per run, as in each iteration of
\* run_examples.
BencodeNext ==
    \/ \E obj \in PyValues : last.op = "init" /\ Encode(obj)
    \/ DecodeEncoded
    \/ \E data \in EdgeCases : Decode(data)

BencodeSpec == NetInit /\ [][BencodeNext]_vars

\* ------------------------------------------------- routing-table claims

AllNodes(o) == Concat(buckets[o], 0)
IsAddNode == last.op = "add_node"
\* The bucket an add_node(id) call works on, before and after the call.
TargetIdx == bucket_index(node_id[last.obj], last.id)
PreBucket == last.pre[TargetIdx]
PostBucket == buckets[last.obj][TargetIdx]
\* The call inserted a new identifier into a bucket that held k entries.
Evicting ==
    /\ IsAddNode /\ last.id # node_id[last.obj]
    /\ TargetIdx \in DOMAIN last.pre
    /\ ~Contains(PreBucket, last.id)
    /\ Len(PreBucket) = k[last.obj]
\* The call named an identifier its bucket already held.
Refreshing ==
    /\ IsAddNode /\ last.id # node_id[last.obj]
    /\ TargetIdx \in DOMAIN last.pre
    /\ Contains(PreBucket, last.id)
Without(s, x) == SelectSeq(s, LAMBDA y : y # x)

\* C1: after any sequence of add_node calls every bucket of a node holds at
\* most k identifiers.
C1_BucketLengthAtMostK ==
    \A o \in Objs : \A i \in DOMAIN buckets[o] : Len(buckets[o][i]) <= k[o]

\* C1 witness: a new identifier was added to a bucket that already held k = 2
\* entries (a third distinct identifier of the same bucket).
C1_Witness ==
    /\ Evicting /\ k[last.obj] = 2
    /\ Len(PostBucket) = 2

\* C2: every identifier occurs at most once in the whole routing table of a
\* node (not twice in a bucket, not in two buckets).
C2_NoDuplicateInTable ==
    \A o \in Objs : Cardinality(ListSet(AllNodes(o))) = Len(AllNodes(o))

\* C2 witness: add_node was called with an identifier the table already held,
\* the table holding members in more than one bucket.
C2_Witness ==
    /\ Refreshing
    /\ Cardinality({i \in DOMAIN buckets[last.obj] : buckets[last.obj][i] # << >>}) >= 2
    /\ Len(AllNodes(last.obj)) >= 3

\* C3: add_node of a new identifier into a bucket holding k entries removes
\* exactly the head, which is the member whose latest add_node call is the
\* oldest, appends the identifier at the tail, and keeps the order of the
\* other k-1 members (and leaves the other buckets alone).
C3_EvictsHead ==
    Evicting =>
        /\ last.ok
        /\ PostBucket = Append(Tail(PreBucket), last.id)
        /\ Head(PreBucket) = Head(last.pre_recency[TargetIdx])
        /\ ~Contains(PostBucket, Head(PreBucket))
        /\ Len(PostBucket) = Len(PreBucket)
        /\ Without(PostBucket, last.id) = Tail(PreBucket)
        /\ \A i \in DOMAIN last.pre :
               i # TargetIdx => buckets[last.obj][i] = last.pre[i]

\* C3 witness: an eviction from a full bucket of two members: the second
\* member is the new head and the new identifier is behind it.
C3_Witness ==
    /\ Evicting /\ Len(PreBucket) = 2
    /\ last.ok
    /\ PostBucket = << PreBucket[2], last.id >>

\* C4: add_node of an identifier already in its bucket keeps the length and
\* the members, makes it the last element and keeps the order of the others;
\* so every bucket is ordered from least to most recently inserted.
C4_MoveToTail ==
    /\ Refreshing =>
        /\ last.ok
        /\ Len(PostBucket) = Len(PreBucket)
        /\ ListSet(PostBucket) = ListSet(PreBucket)
        /\ PostBucket[Len(PostBucket)] = last.id
        /\ Without(PostBucket, last.id) = Without(PreBucket, last.id)
        /\ \A i \in DOMAIN last.pre :
               i # TargetIdx => buckets[last.obj][i] = last.pre[i]
    /\ \A o \in Objs : buckets[o] = recency[o]

\* C4 witness: the identifier was the head of a bucket of two and is now its
\* tail.
C4_Witness ==
    /\ Refreshing /\ Len(PreBucket) = 2
    /\ Head(PreBucket) = last.id
    /\ PostBucket[2] = last.id

\* C6: every identifier in bucket i of a node is at XOR distance d from the
\* node with 2^i <= d < 2^(i+1), and for identifiers below 2^W the bucket
\* index is in [0, W), so that add_node never indexes outside the array.
C6_BucketHoldsDistanceRange ==
    /\ \A o \in Objs : \A i \in DOMAIN buckets[o] : \A j \in 1 .. Len(buckets[o][i]) :
           LET d == distance(node_id[o], buckets[o][i][j]) IN
           Pow2(i) <= d /\ d < Pow2(i + 1)
    /\ IsAddNode => (last.ok /\ TargetIdx >= 0 /\ TargetIdx < W)

\* C6 witness: add_node put the identifier farthest from the node into the
\* last bucket, W - 1, while bucket 0 holds the nearest one.
C6_Witness ==
    /\ IsAddNode /\ last.ok
    /\ TargetIdx = W - 1
    /\ distance(node_id[last.obj], last.id) = Pow2(W) - 1
    /\ Contains(buckets[last.obj][W - 1], last.id)
    /\ buckets[last.obj][0] # << >>

IsFindClosest == last.op = "find_closest_nodes"
Min(a, b) == IF a < b THEN a ELSE b
\* What C7 says of a find_closest_nodes(target, n) call that returned ret.
ClosestContract(o, target, n, ret) ==
    /\ Len(ret) = Min(n, Len(AllNodes(o)))
    /\ \A i \in 1 .. (Len(ret) - 1) :
           distance(target, ret[i]) <= distance(target, ret[i + 1])
    /\ ListSet(ret) \subseteq ListSet(AllNodes(o))
    /\ \A x \in ListSet(ret) : \A y \in ListSet(AllNodes(o)) \ ListSet(ret) :
           distance(target, x) <= distance(target, y)
    /\ (AllNodes(o) = << >> => ret = << >>)

\* C7: for every target and every count n >= 0, find_closest_nodes(target, n)
\* returns members of the routing table sorted by non-decreasing distance to
\* target, exactly min(n, number of members) of them, the n closest; the
\* empty sequence on an empty table.
C7_FindClosestContract ==
    (IsFindClosest /\ last.count # None)
        => ClosestContract(last.obj, last.target, last.count[1], last.ret)

\* The same contract for the counts the code does not take for "no count":
\* n >= 1, and no count at all, which stands for k.
FindClosestContractTruthyCount ==
    IsFindClosest =>
        IF TruthyInt(last.count)
        THEN ClosestContract(last.obj, last.target, last.count[1], last.ret)
        ELSE ClosestContract(last.obj, last.target, k[last.obj], last.ret)

\* A call with n >= 1 that had to cut the sorted members down to n.
FindClosestTruncated ==
    /\ IsFindClosest /\ TruthyInt(last.count)
    /\ Len(last.ret) = 2 /\ Len(AllNodes(last.obj)) >= 4
    /\ distance(last.target, last.ret[1]) < distance(last.target, last.ret[2])

\* ------------------------------------------------------- storage claims

\* C8: on one node find_value(key) returns the value of the latest
\* store(key, v) (last write wins) and None for a key never stored, and it
\* does not change the storage.
C8_LastWriteWins ==
    /\ \A o \in Objs : \A key \in Keys : find_value(storage[o], key) = written[o][key]
    /\ last.op = "find_value" =>
           /\ last.ret = written[last.obj][last.key]
           /\ storage[last.obj] = last.pre
    /\ last.op = "store" =>
           find_value(storage[last.obj], last.key) = Some(last.value)

\* C8 witness: a store replaced a different value of its key, find_value now
\* yields the new value, and the other key, never stored, is not found.
C8_Witness ==
    /\ last.op = "store"
    /\ last.prev \notin {None, Some(last.value)}
    /\ find_value(storage[last.obj], last.key) = Some(last.value)
    /\ \E key \in Keys : key # last.key /\ find_value(storage[last.obj], key) = None

\* ------------------------------------------------------- network claims

\* C5: the routing table of a node never holds the node's own identifier,
\* whatever add_node and bootstrap calls were made, and add_node of the own
\* identifier leaves every bucket as it was.
C5_NeverHoldsOwnId ==
    /\ \A o \in Objs : ~Contains(AllNodes(o), node_id[o])
    /\ (IsAddNode /\ last.id = node_id[last.obj]) =>
           (last.ok /\ buckets[last.obj] = last.pre)

\* C5 witness: add_node was called with the node's own identifier on a node
\* whose routing table holds the two other nodes, one of which holds this
\* node in its own table.
C5_Witness ==
    /\ IsAddNode /\ last.id = node_id[last.obj]
    /\ Len(AllNodes(last.obj)) = 2
    /\ \E o \in Objs \ {last.obj} : Contains(AllNodes(o), node_id[last.obj])

IsLookup == last.op = "lookup"
Origin == nodes[last.origin]
\* What the origin and a registered candidate hold for the key looked up.
LocalValue == find_value(storage[Origin], last.key)
HeldBy(id) == find_value(storage[nodes[id]], last.key)
\* The k members of the origin's routing table closest to Hash(key).
Candidates ==
    find_closest_nodes(buckets[Origin], k[Origin], Hash(last.key), Some(k[Origin]))
Ascending(s, target) ==
    \A i \in 1 .. (Len(s) - 1) : distance(target, s[i]) < distance(target, s[i + 1])

\* C9: when the origin is registered and its storage holds a value for the
\* key, lookup returns exactly that value, whatever value store accepted,
\* and consults no routing-table candidate.
C9_LocalHitReturnsStored ==
    (IsLookup /\ last.origin \in DOMAIN nodes /\ LocalValue # None) =>
        /\ last.ret = LocalValue
        /\ ~last.called
        /\ last.queried = << >>

\* C9 for the values the code takes for a hit: the non-empty ones.
LocalHitNonEmpty ==
    (IsLookup /\ last.origin \in DOMAIN nodes /\ TruthyStr(LocalValue)) =>
        /\ last.ret = LocalValue
        /\ ~last.called
        /\ last.queried = << >>

\* A local hit at an origin one of whose candidates holds another value.
LocalHitReached ==
    /\ IsLookup /\ last.origin \in DOMAIN nodes /\ TruthyStr(LocalValue)
    /\ \E id \in ListSet(Candidates) :
           id \in DOMAIN nodes /\ TruthyStr(HeldBy(id)) /\ HeldBy(id) # LocalValue

\* The candidates that are registered and hold a value for the key.
Holders == SelectSeq(Candidates, LAMBDA id : id \in DOMAIN nodes /\ HeldBy(id) # None)
TruthyHolders ==
    SelectSeq(Candidates, LAMBDA id : id \in DOMAIN nodes /\ TruthyStr(HeldBy(id)))

\* C10: on a local miss lookup queries the candidates of
\* find_closest_nodes(Hash(key), k) in ascending order of distance to
\* Hash(key) and returns the value of the first candidate in that order that
\* is registered and holds a value; no farther candidate decides the result.
C10_FirstHolderDecides ==
    (IsLookup /\ last.origin \in DOMAIN nodes /\ LocalValue = None) =>
        /\ last.closest = Candidates
        /\ Ascending(last.queried, Hash(last.key))
        /\ ListSet(last.queried) \subseteq ListSet(Candidates)
        /\ Holders # << >> =>
               /\ last.ret = HeldBy(Head(Holders))
               /\ \A id \in ListSet(last.queried) :
                      distance(Hash(last.key), id)
                          <= distance(Hash(last.key), Head(Holders))

\* C10 with "holds a value" read as the code reads it: a non-empty value.
FirstTruthyHolderDecides ==
    (IsLookup /\ last.origin \in DOMAIN nodes /\ ~TruthyStr(LocalValue)) =>
        /\ last.closest = Candidates
        /\ Ascending(last.queried, Hash(last.key))
        /\ ListSet(last.queried) \subseteq ListSet(Candidates)
        /\ IF TruthyHolders # << >>
           THEN /\ last.ret = HeldBy(Head(TruthyHolders))
                /\ last.queried[Len(last.queried)] = Head(TruthyHolders)
           ELSE last.ret = None

\* A local miss answered by the nearer of two candidates holding different
\* non-empty values, the nearer one standing behind the other in the buckets.
FirstHolderReached ==
    /\ IsLookup /\ last.origin \in DOMAIN nodes /\ LocalValue = None
    /\ Len(TruthyHolders) = 2
    /\ HeldBy(TruthyHolders[1]) # HeldBy(TruthyHolders[2])
    /\ last.ret = HeldBy(TruthyHolders[1])
    /\ AllNodes(Origin) = << TruthyHolders[2], TruthyHolders[1] >>

\* A local miss where the nearest holder holds the empty string and the
\* lookup returned the non-empty value of a farther candidate.
FartherHolderDecided ==
    /\ IsLookup /\ last.origin \in DOMAIN nodes /\ LocalValue = None
    /\ Len(Holders) = 2
    /\ HeldBy(Holders[1]) = Some("")
    /\ TruthyStr(HeldBy(Holders[2]))
    /\ last.ret = HeldBy(Holders[2])

\* C11: a candidate that is not, or no longer, in the registry is skipped
\* without an error and the remaining candidates are queried: the storage of
\* an unregistered candidate is never read, a key no registered candidate
\* holds is not found, and a key held by a later registered candidate is
\* returned with the value that candidate holds.
C11_UnregisteredSkipped ==
    (IsLookup /\ last.origin \in DOMAIN nodes /\ LocalValue = None) =>
        /\ \A id \in ListSet(last.queried) : id \in DOMAIN nodes
        /\ last.ret = IF Holders = << >> THEN None ELSE HeldBy(Head(Holders))

\* C11 with "held" read as the code reads it, a non-empty value: the
\* unregistered candidates are passed over and the first registered candidate
\* with a non-empty value answers.
UnregisteredSkippedTruthy ==
    (IsLookup /\ last.origin \in DOMAIN nodes /\ ~TruthyStr(LocalValue)) =>
        /\ \A id \in ListSet(last.queried) : id \in DOMAIN nodes
        /\ last.queried = SelectSeq(last.queried, LAMBDA id : Contains(Candidates, id))
        /\ last.ret = IF TruthyHolders = << >> THEN None
                      ELSE HeldBy(Head(TruthyHolders))

\* A lookup whose nearest candidate had been removed from the registry while
\* holding a value, answered by the registered candidate behind it.
StaleCandidateSkipped ==
    /\ IsLookup /\ last.origin \in DOMAIN nodes /\ LocalValue = None
    /\ Len(Candidates) = 2
    /\ Candidates[1] \notin DOMAIN nodes
    /\ \E o \in Objs : node_id[o] = Candidates[1]
                       /\ TruthyStr(find_value(storage[o], last.key))
    /\ last.queried = << Candidates[2] >>
    /\ TruthyStr(last.ret)

\* A lookup for a key that only a removed node holds: not found.
OnlyStaleHolder ==
    /\ IsLookup /\ last.origin \in DOMAIN nodes /\ LocalValue = None
    /\ Candidates # << >>
    /\ \A i \in 1 .. Len(Candidates) : Candidates[i] \notin DOMAIN nodes
    /\ \E o \in Objs : Contains(Candidates, node_id[o])
                       /\ TruthyStr(find_value(storage[o], last.key))
    /\ last.ret = None

\* C12: lookup from an origin that is not in the registry returns None at
\* once, for every key, and reads no node's storage or routing table.
C12_UnregisteredOrigin ==
    (IsLookup /\ last.origin \notin DOMAIN nodes) =>
        /\ last.ret = None
        /\ ~last.local
        /\ ~last.called
        /\ last.closest = << >>
        /\ last.queried = << >>

\* C12 witness: the origin is the identifier of a node that is not
\* registered, holds a value for the key and knows another node.
C12_Witness ==
    /\ IsLookup /\ last.origin \notin DOMAIN nodes
    /\ \E o \in Objs : /\ node_id[o] = last.origin
                       /\ TruthyStr(find_value(storage[o], last.key))
                       /\ AllNodes(o) # << >>
    /\ last.ret = None

\* C13: lookup returns None exactly when the origin is unregistered, or the
\* origin holds no value for the key and no registered identifier among the
\* k members closest to Hash(key) holds one.
C13_NotFoundExactlyWhen ==
    IsLookup =>
        (last.ret = None <=>
            \/ last.origin \notin DOMAIN nodes
            \/ (LocalValue = None /\ Holders = << >>))

\* C13 with "holds a value" read as the code reads it: a non-empty value.
NotFoundExactlyWhenTruthy ==
    IsLookup =>
        (last.ret = None <=>
            \/ last.origin \notin DOMAIN nodes
            \/ (~TruthyStr(LocalValue) /\ TruthyHolders = << >>))

\* A lookup from a registered node with an empty routing table and nothing
\* stored, while another registered node holds the key: not found.
EmptyTableMiss ==
    /\ IsLookup /\ last.origin \in DOMAIN nodes
    /\ AllNodes(Origin) = << >> /\ LocalValue = None
    /\ \E id \in DOMAIN nodes : TruthyStr(HeldBy(id))
    /\ last.ret = None

\* The identifier id is the tail of one of the buckets of bk.
AtTail(bk, id) ==
    \E i \in DOMAIN bk : bk[i] # << >> /\ bk[i][Len(bk[i])] = id

\* C14: bootstrap(newNode, knownId) with knownId registered and different
\* from newNode's identifier leaves knownId at the tail of a bucket of
\* newNode and newNode's identifier at the tail of a bucket of the node
\* registered as knownId, and changes no other node's state; with knownId
\* unregistered it changes no routing table, storage or registry entry and
\* raises nothing.
C14_BootstrapIntroduces ==
    [][ last'.op = "bootstrap" =>
          LET new_node == last'.obj
              knownId == last'.id
          IN  /\ last'.ok
              /\ storage' = storage /\ nodes' = nodes
              /\ node_id' = node_id /\ k' = k
              /\ IF knownId \in DOMAIN nodes
                 THEN knownId # node_id[new_node] =>
                        /\ AtTail(buckets'[new_node], knownId)
                        /\ AtTail(buckets'[nodes[knownId]], node_id[new_node])
                        /\ \A o \in Objs \ {new_node, nodes[knownId]} :
                               buckets'[o] = buckets[o]
                 ELSE buckets' = buckets
      ]_vars

\* C14 witness: after a bootstrap against a registered node each of the two
\* holds the other at the tail of a bucket, the new node behind a member it
\* knew before, while the third node knows a peer too.
C14_Witness ==
    /\ last.op = "bootstrap" /\ last.ok
    /\ last.id \in DOMAIN nodes /\ last.id # node_id[last.obj]
    /\ AtTail(buckets[last.obj], last.id)
    /\ AtTail(buckets[nodes[last.id]], node_id[last.obj])
    /\ Len(AllNodes(last.obj)) = 2
    /\ \A o \in Objs : AllNodes(o) # << >>

IsSelfInsert == IsAddNode /\ last.id = node_id[last.obj]

\* C17 as stated: add_node of the node's own identifier is reported as an
\* error at the call site (the call raises), not silently ignored.
C17_SelfInsertReported == IsSelfInsert => ~last.ok

\* C17 as amended: add_node of the node's own identifier is silently
\* ignored: the call returns normally, raises nothing and leaves the routing
\* table as it was.
C17_SelfInsertIgnored ==
    IsSelfInsert =>
        /\ last.ok
        /\ \A i \in DOMAIN last.pre : buckets[last.obj][i] = last.pre[i]
        /\ DOMAIN buckets[last.obj] = DOMAIN last.pre

\* C17 witness: add_node of the own identifier returned on a node whose
\* table holds members in two buckets, for a node whose identifier is 0.
C17_Witness ==
    /\ IsSelfInsert /\ last.ok
    /\ node_id[last.obj] = 0
    /\ Cardinality({i \in DOMAIN buckets[last.obj] : buckets[last.obj][i] # << >>}) = 2

IsDistance == last.op = "distance"

\* C18: distance is symmetric, it is 0 exactly for equal identifiers, and
\* for every identifier a and every magnitude d of the width exactly one
\* identifier b has distance(a, b) = d.
C18_XorMetric ==
    IsDistance =>
        /\ last.ret = distance(last.b, last.a)
        /\ (last.ret = 0) <=> (last.a = last.b)
        /\ last.ret \in IDs
        /\ \A d \in IDs :
              Cardinality({b \in IDs : distance(last.a, b) = d}) = 1

\* C18 witness: two different non-zero identifiers at the largest distance
\* of the width.
C18_Witness ==
    /\ IsDistance
    /\ last.a # 0 /\ last.b # 0 /\ last.a # last.b
    /\ last.ret = Pow2(W) - 1
    /\ distance(last.b, last.a) = last.ret

\* C20: a node constructed with an explicit identifier has that identifier,
\* whatever its value, in every state.
C20_ExplicitIdKept ==
    \A o \in Objs : init_arg[o] # None => node_id[o] = init_arg[o][1]

\* What the constructor does guarantee: an explicit non-zero identifier is
\* kept; an explicit 0 is replaced like a missing argument.
ExplicitTruthyIdKept ==
    \A o \in Objs : TruthyInt(init_arg[o]) => node_id[o] = init_arg[o][1]

\* A node constructed with the explicit identifier 0 that has another one.
ExplicitZeroReplaced ==
    \E o \in Objs : init_arg[o] = Some(0) /\ node_id[o] # 0

\* C16: concurrent add_node calls on one node behave like calls made one
\* after the other: in every state every bucket of the node holds at most k
\* identifiers and none twice, no call ends in an exception, and a
\* find_closest_nodes running at the same time misses no identifier that a
\* call has taken out of its bucket to put it back at the tail.
C16_AddNodeSerialized ==
    /\ \A i \in DOMAIN buckets[Solo] :
          /\ Len(buckets[Solo][i]) <= k[Solo]
          /\ Cardinality(ListSet(buckets[Solo][i])) = Len(buckets[Solo][i])
    /\ \A t \in Writers : threads[t].pc = "done" => ~threads[t].err
    /\ last.op = "find_closest_nodes while add_node" => last.missed = {}

\* The four ways the interleaved calls leave the sequential behaviour.
BucketOverfull ==
    \E i \in DOMAIN buckets[Solo] : Len(buckets[Solo][i]) > k[Solo]
BucketHoldsTwice ==
    \E i \in DOMAIN buckets[Solo] :
        Cardinality(ListSet(buckets[Solo][i])) < Len(buckets[Solo][i])
ConcurrentCallRaised ==
    \E t \in Writers : threads[t].pc = "done" /\ threads[t].err
ReaderMissedMember ==
    /\ last.op = "find_closest_nodes while add_node"
    /\ last.missed # {}

\* C15: bootstrap is atomic for everything that runs at the same time: a
\* bootstrap that has ended made both add_node calls or neither, and no
\* lookup ran on a table that showed one side of an unfinished wiring.
C15_BootstrapAtomic ==
    /\ threads[Booter].pc = "done" =>
          (threads[Booter].first <=> threads[Booter].second)
    /\ last.op = "lookup while bootstrap" => last.half = {}

\* A bootstrap ended by the KeyError of line 64 after the registry lost the
\* known identifier: the new node's table holds it, the wiring back is missing.
PartialWiringLeft ==
    LET t == threads[Booter] IN
    /\ t.pc = "done" /\ t.err /\ t.first /\ ~t.second
    /\ t.id \notin DOMAIN nodes
    /\ Contains(Concat(buckets[t.obj], 0), t.id)
    /\ ~Contains(Concat(buckets[ObjOf(t.id)], 0), node_id[t.obj])

\* A lookup that ran between the two add_node calls of a bootstrap.
LookupSawHalfWiring ==
    /\ last.op = "lookup while bootstrap"
    /\ last.half # {}
    /\ threads[Booter].pc = "second"

\* The dicts of a value, at every depth, hold their keys in ascending order.
RECURSIVE KeysAscending(_)
KeysAscending(v) ==
    CASE v.t = "list" -> \A i \in 1 .. Len(v.l) : KeysAscending(v.l[i])
      [] v.t = "dict" ->
            /\ \A i \in 1 .. (Len(v.d) - 1) : BytesLess(v.d[i][1], v.d[i + 1][1])
            /\ \A i \in 1 .. Len(v.d) : KeysAscending(v.d[i][2])
      [] OTHER -> TRUE

IsRoundTrip == last.op = "decode" /\ last.src # None

\* C19: decode(encode(v)) == v for byte strings, integers, lists and dicts
\* with byte-string keys; the decoder stops exactly at the end of the
\* encoding; the dicts of the encoding have their keys in sorted order.
C19_BencodeRoundTrip ==
    IsRoundTrip =>
        /\ last.ok
        /\ PyEq(last.ret, last.src[1])
        /\ last.index = Len(last.data)
        /\ KeysAscending(last.ret)

\* C19 witness: a round trip of a dict inside a dict whose keys were inserted
\* in descending order, and that holds a byte string and an integer.
C19_Witness ==
    /\ IsRoundTrip /\ last.ok
    /\ last.src[1].t = "dict" /\ Len(last.src[1].d) = 2
    /\ last.src[1].d[1][2].t = "dict"
    /\ Len(last.src[1].d[1][2].d) = 2
    /\ ~KeysAscending(last.src[1])
    /\ ~KeysAscending(last.src[1].d[1][2])
    /\ PyEq(last.ret, last.src[1]) /\ last.ret # last.src[1]

IsRead == last.op \in {"lookup", "find_closest_nodes"}

\* C21: lookup, whatever its outcome, and find_closest_nodes leave the
\* registry, every node's buckets (contents and order) and every node's
\* storage as they were.
C21_ReadsChangeNothing ==
    [][ last'.op \in {"lookup", "find_closest_nodes"} =>
            /\ nodes' = nodes
            /\ buckets' = buckets
            /\ storage' = storage
            /\ node_id' = node_id /\ k' = k
      ]_vars

\* C21 witness: a lookup that found the value at a candidate, after sorting
\* the origin's two table members into an order other than the one its
\* buckets hold them in.
C21_Witness ==
    /\ IsLookup /\ last.called /\ TruthyStr(last.ret)
    /\ Len(last.closest) = 2
    /\ Len(AllNodes(Origin)) = 2
    /\ last.closest # AllNodes(Origin)
    /\ last.queried # << >>

====
